---- MODULE Spec2Model ----
(***************************************************************************)
(* Model of src/streamlitdemo.py: the reference-date metrics script.       *)
(*                                                                         *)
(* Dates are day numbers.  A table is a sequence of rows (records).  The   *)
(* three loaders are taken to hand back tables with the selected columns,  *)
(* as their annotations (-> pd.DataFrame) say.  Input numbers are          *)
(* integers; a derived number is an exact fraction [n, d] in lowest terms  *)
(* with d > 0.  NaN is the missing-value marker, None is what r.get(c)     *)
(* gives for a column the row does not have.                               *)
(***************************************************************************)
EXTENDS Integers, Sequences, FiniteSets, TLC

VARIABLES
    ref_date,      \* st.date_input("Reference date")            (line 141)
    db_stocks,     \* table "stocks"
    db_fund,       \* table "fundamentals_raw"
    db_prices,     \* table "prices_daily_raw"
    membership,    \* index-membership intervals (never read by the script)
    pc,            \* position of the script run
    err,           \* the exception that ended the run, or "none"
    stocks,        \* line 149
    funds,         \* line 148
    prices,        \* line 147
    funds_latest,  \* line 152
    funds_1y,      \* line 171
    funds_5y,      \* line 172
    metrics,       \* lines 175-237
    out,           \* lines 245-249
    summary,       \* lines 264-272
    call           \* a single helper call: its arguments and what it returned

vars ==
    <<ref_date, db_stocks, db_fund, db_prices, membership, pc, err, stocks, funds,
      prices, funds_latest, funds_1y, funds_5y, metrics, out, summary, call>>

-----------------------------------------------------------------------------
(* Bounds of the model *)

MaxReports == 3

MaxPriceRows == 2

MaxSeriesLen == 3

-----------------------------------------------------------------------------
(* Values *)

\* every cell value is a record, so that any two can be compared
NaN == [k |-> "NaN"]

None == [k |-> "None"]

\* what a helper "returns" when it raises
ZeroDivisionError == [k |-> "ZeroDivisionError"]

\* the number v of a table cell
Num(v) == [k |-> "num", n |-> v, d |-> 1]

\* a date found by a lookup
Date(day) == [k |-> "date", day |-> day]

Tickers == {"AAA", "BBB"}

Abs(x) == IF x < 0 THEN -x ELSE x

RECURSIVE GCD(_, _)
GCD(a, b) == IF b = 0 THEN a ELSE GCD(b, a % b)

\* the fraction n/d (d # 0) in lowest terms, d > 0
Frac(n, d) ==
    LET g == GCD(Abs(n), Abs(d))
        s == IF d < 0 THEN -1 ELSE 1
    IN  [k |-> "num", n |-> (s * n) \div g, d |-> (s * d) \div g]

IsNum(x) == x.k = "num"

\* a / b for numbers a and b, b # 0
Div(a, b) == Frac(a.n * b.d, a.d * b.n)

Sub(a, b) == Frac(a.n * b.d - b.n * a.d, a.d * b.d)

Add(a, b) == Frac(a.n * b.d + b.n * a.d, a.d * b.d)

Mul(a, b) == Frac(a.n * b.n, a.d * b.d)

IsZero(a) == IsNum(a) /\ a.n = 0

\* pd.isna / np.isnan on a cell: NaN and None are missing
isna(x) == x \in {NaN, None}

notna(x) == ~isna(x)

-----------------------------------------------------------------------------
(* Price lookups, lines 117-136 *)

RECURSIVE InsertByDt(_, _)
InsertByDt(row, sorted) ==
    IF sorted = <<>> THEN <<row>>
    ELSE IF row.dt < Head(sorted).dt THEN <<row>> \o sorted
    ELSE <<Head(sorted)>> \o InsertByDt(row, Tail(sorted))

\* sub.sort_values("dt"): ascending by dt
RECURSIVE sort_values_dt(_)
sort_values_dt(df) ==
    IF df = <<>> THEN <<>>
    ELSE InsertByDt(df[Len(df)], sort_values_dt(SubSeq(df, 1, Len(df) - 1)))

FilterTicker(df, ticker) == SelectSeq(df, LAMBDA r : r.ticker = ticker)

\* a faulty variant: the rows are taken in the order they come, unsorted
get_price_unsorted(prices_df, ticker, target_date) ==
    LET sub == SelectSeq(FilterTicker(prices_df, ticker),
                         LAMBDA r : r.dt <= target_date)
    IN  IF sub = <<>> THEN <<NaN, None>>
        ELSE <<Num(sub[Len(sub)].close), Date(sub[Len(sub)].dt)>>

get_price_on_or_before(prices_df, ticker, target_date) ==
    LET sub1 == FilterTicker(prices_df, ticker)
        sub2 == sort_values_dt(sub1)
        sub3 == SelectSeq(sub2, LAMBDA r : r.dt <= target_date)
    IN  IF sub3 = <<>> THEN <<NaN, None>>
        ELSE <<Num(sub3[Len(sub3)].close), Date(sub3[Len(sub3)].dt)>>

\* a faulty variant: the raw fraction, without the factor 100
pct_change_fraction(prices_df, ticker, base_date, lookback_days) ==
    LET base_price == get_price_on_or_before(prices_df, ticker, base_date)[1]
        tgt_price == get_price_on_or_before(prices_df, ticker,
                                            base_date - lookback_days)[1]
    IN  IF base_price = NaN THEN NaN
        ELSE IF tgt_price = NaN THEN NaN
        ELSE IF IsZero(tgt_price) THEN ZeroDivisionError
        ELSE Sub(Div(base_price, tgt_price), Num(1))

\* (base_price / tgt_price - 1) * 100 on Python floats: a zero tgt_price raises
pct_change_from(prices_df, ticker, base_date, lookback_days) ==
    LET base_price == get_price_on_or_before(prices_df, ticker, base_date)[1]
        tgt_price == get_price_on_or_before(prices_df, ticker,
                                            base_date - lookback_days)[1]
    IN  IF base_price = NaN THEN NaN
        ELSE IF tgt_price = NaN THEN NaN
        ELSE IF IsZero(tgt_price) THEN ZeroDivisionError
        ELSE Mul(Sub(Div(base_price, tgt_price), Num(1)), Num(100))

\* perf_cols, lines 179-185
perf_cols == [c \in {"1M", "3M", "6M", "1Y", "5Y"} |->
    CASE c = "1M" -> 30 [] c = "3M" -> 90 [] c = "6M" -> 182
      [] c = "1Y" -> 365 [] c = "5Y" -> 365 * 5]

-----------------------------------------------------------------------------
(* Loaders, lines 23-58.  fundamentals_raw is a set of rows                *)
(* [ticker, reported_date, field, value], one row per fact; nothing below  *)
(* depends on the order of its rows.                                       *)

\* a faulty variant: only the tickers that are members of the index on the reference date
load_stocks_members ==
    SelectSeq(db_stocks, LAMBDA r :
        \E iv \in membership :
            iv.ticker = r["ticker"] /\ iv.start <= ref_date /\ ref_date <= iv.end)

\* supabase.table("stocks").select("*")
load_stocks == db_stocks

\* .lte("reported_date", ref_date_str)
load_fundamentals_upto(date) == {r \in db_fund : r.reported_date <= date}

TickerRank(t) == IF t = "AAA" THEN 1 ELSE 2

RowBefore(a, b) ==
    \/ TickerRank(a.ticker) < TickerRank(b.ticker)
    \/ a.ticker = b.ticker /\ a.dt < b.dt

\* the rows of a set in the order .order("ticker").order("dt")
RECURSIVE OrderByTickerDt(_)
OrderByTickerDt(S) ==
    IF S = {} THEN <<>>
    ELSE LET first == CHOOSE r \in S : \A q \in S \ {r} : RowBefore(r, q)
         IN  <<first>> \o OrderByTickerDt(S \ {first})

\* .gte("dt", start_date_str).lte("dt", end_date_str).order(...)
load_prices_since(start_date, end_date) ==
    OrderByTickerDt({r \in db_prices : start_date <= r.dt /\ r.dt <= end_date})

-----------------------------------------------------------------------------
(* Snapshots, lines 102-114 and 158-169.  A wide frame has a ticker column *)
(* (or not), a set of field columns, and one row per ticker of its index.  *)

\* pd.DataFrame(): no rows and no columns, "ticker" included
EmptyFrame == [ticker_col |-> FALSE, columns |-> {}, index |-> {}, cell |-> <<>>]

Max(S) == CHOOSE x \in S : \A y \in S : y <= x

\* groupby("ticker")["reported_date"].max()
latest_rd(df) ==
    [t \in {r.ticker : r \in df} |->
        Max({r.reported_date : r \in {q \in df : q.ticker = t}})]

\* latest.merge(df, on ticker and rd = reported_date), then
\* pivot(index="ticker", columns="field", values="value").reset_index()
merge_pivot(latest, df) ==
    LET merged == {r \in df : r.reported_date = latest[r.ticker]}
        fields == {r.field : r \in merged}
    IN  [ticker_col |-> TRUE,
         columns |-> fields,
         index |-> DOMAIN latest,
         cell |-> [t \in DOMAIN latest |-> [f \in fields |->
                     IF \E r \in merged : r.ticker = t /\ r.field = f
                     THEN Num((CHOOSE r \in merged :
                                 r.ticker = t /\ r.field = f).value)
                     ELSE NaN]]]

\* ref_date is not used by the body: the caller passes a frame already cut
pivot_latest_quarter(fund_df, date) ==
    IF fund_df = {} THEN EmptyFrame
    ELSE merge_pivot(latest_rd(fund_df), fund_df)

\* a faulty variant: the cutoff is not applied
snapshot_no_cutoff(offset_days) ==
    IF funds = {} THEN EmptyFrame
    ELSE merge_pivot(latest_rd(funds), funds)

snapshot_at_offset(offset_days) ==
    LET cutoff == ref_date - offset_days
        df == {r \in funds : r.reported_date <= cutoff}
    IN  IF df = {} THEN EmptyFrame
        ELSE merge_pivot(latest_rd(df), df)

-----------------------------------------------------------------------------
(* Rows of the metrics table: functions from column names to cells *)

\* r.get(c)
get(r, c) == IF c \in DOMAIN r THEN r[c] ELSE None

\* r with the columns of s added (s wins)
With(r, s) ==
    [c \in DOMAIN r \cup DOMAIN s |-> IF c \in DOMAIN s THEN s[c] ELSE r[c]]

\* frame[cols] raises KeyError unless every one of cols is a column
HasColumns(frame, cols) ==
    /\ frame.ticker_col
    /\ cols \subseteq frame.columns

\* one row of left.merge(frame[cols].rename(...), on="ticker", how="left"):
\* the frame's columns cols under the names rename[c], NaN without a match
merge_row(r, frame, cols, rename) ==
    With(r, [n \in {rename[c] : c \in cols} |->
        LET c == CHOOSE x \in cols : rename[x] = n
        IN  IF r["ticker"] \in frame.index THEN frame.cell[r["ticker"]][c]
            ELSE NaN])

merge_left(left, frame, cols, rename) ==
    [i \in 1..Len(left) |-> merge_row(left[i], frame, cols, rename)]

Same(cols) == [c \in cols |-> c]

Suffix1y == [c \in {"revenue", "net_income", "eps_basic"} |->
    CASE c = "revenue" -> "revenue_1y" [] c = "net_income" -> "net_income_1y"
      [] c = "eps_basic" -> "eps_basic_1y"]

Suffix5y == [c \in {"revenue", "net_income", "eps_basic"} |->
    CASE c = "revenue" -> "revenue_5y" [] c = "net_income" -> "net_income_5y"
      [] c = "eps_basic" -> "eps_basic_5y"]

-----------------------------------------------------------------------------
(* Row-wise metrics, lines 187-237 *)

PerfOrder == <<"1M", "3M", "6M", "1Y", "5Y">>

PerfName(c) ==
    CASE c = "1M" -> "1M %" [] c = "3M" -> "3M %" [] c = "6M" -> "6M %"
      [] c = "1Y" -> "1Y %" [] c = "5Y" -> "5Y %"

\* metrics[col + " %"] = metrics["ticker"].apply(pct_change_from ...)
perf_column(m, c) ==
    [i \in 1..Len(m) |->
        With(m[i], [n \in {PerfName(c)} |->
            pct_change_from(prices, m[i]["ticker"], ref_date, perf_cols[c])])]

PerfRaises(m, c) ==
    \E i \in 1..Len(m) :
        pct_change_from(prices, m[i]["ticker"], ref_date, perf_cols[c])
            = ZeroDivisionError

\* the loop of lines 187-188 from its k-th column on: the table it leaves and
\* whether it raised
RECURSIVE perf_loop(_, _)
perf_loop(m, k) ==
    IF k > Len(PerfOrder) THEN [table |-> m, raised |-> FALSE]
    ELSE IF PerfRaises(m, PerfOrder[k]) THEN [table |-> m, raised |-> TRUE]
    ELSE perf_loop(perf_column(m, PerfOrder[k]), k + 1)

\* lines 192-193
net_margin(r) ==
    IF /\ notna(get(r, "net_income"))
       /\ notna(get(r, "revenue"))
       /\ ~IsZero(get(r, "revenue"))
    THEN Mul(Div(get(r, "net_income"), get(r, "revenue")), Num(100))
    ELSE NaN

\* lines 196-199
growth(cur, prev) ==
    IF isna(cur) \/ isna(prev) \/ IsZero(prev) THEN NaN
    ELSE Mul(Sub(Div(cur, prev), Num(1)), Num(100))

\* a faulty variant: the fallback is decided for each period on its own
earnings_growth_mixed(r, prior_ni, prior_eps) ==
    growth(IF notna(get(r, "net_income")) THEN get(r, "net_income")
           ELSE get(r, "eps_basic"),
           IF notna(get(r, prior_ni)) THEN get(r, prior_ni)
           ELSE get(r, prior_eps))

\* lines 211-216, for the columns prior_ni and prior_eps of one period
earnings_growth(r, prior_ni, prior_eps) ==
    IF notna(get(r, "net_income")) /\ notna(get(r, prior_ni))
    THEN growth(get(r, "net_income"), get(r, prior_ni))
    ELSE growth(get(r, "eps_basic"), get(r, prior_eps))

\* lines 219-220
cash_to_debt(r) ==
    IF /\ notna(get(r, "cash_on_hand"))
       /\ notna(get(r, "long_term_debt"))
       /\ ~IsZero(get(r, "long_term_debt"))
    THEN Div(get(r, "cash_on_hand"), get(r, "long_term_debt"))
    ELSE NaN

\* line 234
fpe_approx(r) ==
    IF /\ notna(get(r, "Price"))
       /\ notna(get(r, "eps_basic"))
       /\ ~IsZero(get(r, "eps_basic"))
    THEN Div(get(r, "Price"), get(r, "eps_basic"))
    ELSE NaN

\* metrics[name] = col, one value for each row
add_column(m, name, col) ==
    [i \in 1..Len(m) |-> With(m[i], [n \in {name} |-> col[i]])]

\* line 192-193
with_net_margin(m) ==
    add_column(m, "Net Margin", [i \in 1..Len(m) |-> net_margin(m[i])])

\* line 202
with_revenue_1y(m) == merge_left(m, funds_1y, {"revenue"}, Suffix1y)

\* lines 203-205
with_revenue_growth(m) ==
    LET m1 == merge_left(m, funds_5y, {"revenue"}, Suffix5y)
        m2 == add_column(m1, "Revenue growth (1y) %",
                  [i \in 1..Len(m1) |-> growth(get(m1[i], "revenue"), get(m1[i], "revenue_1y"))])
    IN  add_column(m2, "Revenue growth (5y) %",
                  [i \in 1..Len(m2) |-> growth(get(m2[i], "revenue"), get(m2[i], "revenue_5y"))])

\* line 208
with_earnings_1y(m) ==
    merge_left(m, funds_1y, {"net_income", "eps_basic"}, Suffix1y)

\* lines 209-237
with_rest(m) ==
    LET m1 == merge_left(m, funds_5y, {"net_income", "eps_basic"}, Suffix5y)
        m2 == add_column(m1, "Earnings growth (1y) %",
                  [i \in 1..Len(m1) |-> earnings_growth(m1[i], "net_income_1y", "eps_basic_1y")])
        m3 == add_column(m2, "Earnings growth (5y) %",
                  [i \in 1..Len(m2) |-> earnings_growth(m2[i], "net_income_5y", "eps_basic_5y")])
        m4 == add_column(m3, "Cash_to_Debt", [i \in 1..Len(m3) |-> cash_to_debt(m3[i])])
        m5 == add_column(m4, "Price",
                  [i \in 1..Len(m4) |-> get_price_on_or_before(prices, m4[i]["ticker"], ref_date)[1]])
        m6 == add_column(m5, "FPE (approx)", [i \in 1..Len(m5) |-> fpe_approx(m5[i])])
    IN  add_column(m6, "1Y growth%",
                  [i \in 1..Len(m6) |-> m6[i]["Revenue growth (1y) %"]])

\* lines 192-237: the table the block leaves and whether a selection raised
fund_metrics(m) ==
    LET a == with_net_margin(m)
        b == with_revenue_1y(a)
        c == with_revenue_growth(b)
        d == with_earnings_1y(c)
    IN  IF ~HasColumns(funds_1y, {"revenue"}) THEN [table |-> a, raised |-> TRUE]
        ELSE IF ~HasColumns(funds_5y, {"revenue"}) THEN [table |-> b, raised |-> TRUE]
        ELSE IF ~HasColumns(funds_1y, {"net_income", "eps_basic"})
             THEN [table |-> c, raised |-> TRUE]
        ELSE IF ~HasColumns(funds_5y, {"net_income", "eps_basic"})
             THEN [table |-> d, raised |-> TRUE]
        ELSE [table |-> with_rest(d), raised |-> FALSE]

-----------------------------------------------------------------------------
(* Output, lines 240-272 *)

IdCols == {"ticker", "name", "sector", "industry"}

NumCols ==
    {"1M %", "3M %", "6M %", "1Y %", "5Y %", "Net Margin", "FPE (approx)",
     "Revenue growth (1y) %", "Revenue growth (5y) %", "Earnings growth (1y) %",
     "Earnings growth (5y) %", "Cash_to_Debt", "1Y growth%", "Price"}

display_cols == IdCols \cup NumCols

\* .round(2): to the nearest hundredth, a half to the even one
round2(x) ==
    IF ~IsNum(x) THEN x
    ELSE LET q == (100 * x.n) \div x.d
             rem == 100 * x.n - q * x.d
             up == \/ 2 * rem > x.d
                   \/ 2 * rem = x.d /\ q % 2 = 1
         IN  Frac(IF up THEN q + 1 ELSE q, 100)

\* out = metrics[display_cols].copy(), its numeric columns rounded
display(m) ==
    [i \in 1..Len(m) |-> [c \in display_cols |->
        IF c \in NumCols THEN round2(m[i][c]) ELSE m[i][c]]]

\* the present values of a column, as (sum, count)
RECURSIVE present(_, _, _)
present(table, c, i) ==
    IF i > Len(table) THEN [sum |-> Num(0), count |-> 0]
    ELSE LET rest == present(table, c, i + 1)
         IN  IF isna(table[i][c]) THEN rest
             ELSE [sum |-> Add(table[i][c], rest.sum), count |-> rest.count + 1]

\* a faulty variant: a missing value counts as zero
mean_fillzero(table, c) ==
    IF Len(table) = 0 THEN NaN
    ELSE Div(present(table, c, 1).sum, Num(Len(table)))

\* Series.mean(): missing values skipped, NaN when nothing is left
mean(table, c) ==
    LET p == present(table, c, 1)
    IN  IF p.count = 0 THEN NaN ELSE Div(p.sum, Num(p.count))

\* f"{x:.2f}%" if pd.notna(x) else "n/a"
metric_text(x) == IF notna(x) THEN round2(x) ELSE [k |-> "n/a"]

quick_summary(o) ==
    [universe_size |-> Len(o),
     mean_1y |-> mean(o, "1Y %"),
     avg_net_margin |-> mean(o, "Net Margin"),
     shown_1y |-> metric_text(mean(o, "1Y %")),
     shown_net_margin |-> metric_text(mean(o, "Net Margin"))]

-----------------------------------------------------------------------------
(* Inputs: what the three tables and the date picker may hold *)

RefDates == {2000, 2001}

FundDates == {176, 1635, 2001}

\* what one filing reports: field -> value
Reports ==
    { [f \in {"revenue", "net_income", "eps_basic", "cash_on_hand", "long_term_debt"} |->
        CASE f = "revenue" -> 2 [] f = "net_income" -> 1 [] f = "eps_basic" -> 2
          [] f = "cash_on_hand" -> 1 [] f = "long_term_debt" -> 2],
      [f \in {"revenue", "net_income", "eps_basic", "cash_on_hand", "long_term_debt"} |->
        CASE f = "revenue" -> 4 [] f = "net_income" -> 3 [] f = "eps_basic" -> 1
          [] f = "cash_on_hand" -> 0 [] f = "long_term_debt" -> 0],
      [f \in {"revenue", "eps_basic"} |-> 2],
      [f \in {"revenue", "net_income", "eps_basic"} |-> 0] }

\* the rows of fundamentals_raw for filings: (ticker, date) -> report
FundRows(filings) ==
    UNION { { [ticker |-> slot[1], reported_date |-> slot[2],
               field |-> f, value |-> filings[slot][f]] :
              f \in DOMAIN filings[slot] } : slot \in DOMAIN filings }

\* at most MaxReports (ticker, date) pairs that have a filing
FilingSlots ==
    {T \in SUBSET (Tickers \X FundDates) : Cardinality(T) <= MaxReports}

StockRow(t) ==
    [c \in {"ticker", "name", "sector", "industry"} |->
        CASE c = "ticker" -> t
          [] c = "name" -> IF t = "AAA" THEN "Alpha Corp" ELSE "Beta Corp"
          [] c = "sector" -> IF t = "AAA" THEN "Technology" ELSE "Energy"
          [] c = "industry" -> IF t = "AAA" THEN "Software" ELSE "Oil"]

\* the registry: each ticker at most once, in any order
Registries ==
    { <<>>, <<StockRow("AAA")>>, <<StockRow("BBB")>>,
      <<StockRow("AAA"), StockRow("BBB")>>, <<StockRow("BBB"), StockRow("AAA")>> }

PriceRow(t, dt, close) == [ticker |-> t, dt |-> dt, close |-> close]

Closes == {0, 50, 60}

\* at most MaxPriceRows (ticker, day) pairs that have a close
PriceKeys ==
    {T \in SUBSET (Tickers \X {1630, 1995}) : Cardinality(T) <= MaxPriceRows}

PriceRows(closes) ==
    { PriceRow(key[1], key[2], closes[key]) : key \in DOMAIN closes }

SteadyPrices ==
    { PriceRow("AAA", 170, 40), PriceRow("AAA", 1630, 50), PriceRow("AAA", 1995, 60),
      PriceRow("BBB", 1995, 10) }

\* both tickers file in full, five years back and now
FullHistory ==
    FundRows([slot \in Tickers \X {176, 2001} |->
        IF slot = <<"AAA", 2001>>
        THEN CHOOSE r \in Reports : r["revenue"] = 4
        ELSE CHOOSE r \in Reports : "net_income" \in DOMAIN r /\ r["revenue"] = 2])

Interval(t, a, b) == [ticker |-> t, start |-> a, end |-> b]

\* membership intervals of the index; AAA leaves it and comes back later
Intervals ==
    { Interval("AAA", 1000, 1900), Interval("AAA", 2050, 99999),
      Interval("BBB", 1900, 2100) }

\* AAA's two intervals come together
Memberships ==
    {M \in SUBSET Intervals :
        Interval("AAA", 1000, 1900) \in M <=> Interval("AAA", 2050, 99999) \in M}

NoSummary == [universe_size |-> 0, mean_1y |-> NaN, avg_net_margin |-> NaN,
              shown_1y |-> [k |-> "n/a"], shown_net_margin |-> [k |-> "n/a"]]

NoCall == [fn |-> "none"]

\* nothing computed yet
Fresh ==
    /\ pc = "start"
    /\ err = "none"
    /\ stocks = <<>>
    /\ funds = {}
    /\ prices = <<>>
    /\ funds_latest = EmptyFrame
    /\ funds_1y = EmptyFrame
    /\ funds_5y = EmptyFrame
    /\ metrics = <<>>
    /\ out = <<>>
    /\ summary = NoSummary
    /\ call = NoCall

\* any fundamentals, a steady price history, both tickers registered
Init ==
    /\ ref_date \in RefDates
    /\ db_stocks = <<StockRow("AAA"), StockRow("BBB")>>
    /\ \E S \in FilingSlots : \E filings \in [S -> Reports] :
           db_fund = FundRows(filings)
    /\ db_prices = SteadyPrices
    /\ membership = {}
    /\ Fresh

\* any registry, membership and prices, with full fundamentals or none
InitUniverse ==
    /\ ref_date \in RefDates
    /\ db_stocks \in Registries
    /\ db_fund \in {FullHistory, {}}
    /\ \E K \in PriceKeys : \E closes \in [K -> Closes] :
           db_prices = PriceRows(closes)
    /\ membership \in Memberships
    /\ Fresh

-----------------------------------------------------------------------------
(* The script run, lines 141-272 *)

\* lines 145-149
Load ==
    /\ pc = "start"
    /\ prices' = load_prices_since(ref_date - 365 * 6, ref_date)
    /\ funds' = load_fundamentals_upto(ref_date)
    /\ stocks' = load_stocks
    /\ pc' = "loaded"
    /\ UNCHANGED <<ref_date, db_stocks, db_fund, db_prices, membership, err,
                   funds_latest, funds_1y, funds_5y, metrics, out, summary, call>>

\* lines 152-172
Snapshots ==
    /\ pc = "loaded"
    /\ funds_latest' = pivot_latest_quarter(funds, ref_date)
    /\ funds_1y' = snapshot_at_offset(365)
    /\ funds_5y' = snapshot_at_offset(365 * 5)
    /\ pc' = "snapshots"
    /\ UNCHANGED <<ref_date, db_stocks, db_fund, db_prices, membership, err,
                   stocks, funds, prices, metrics, out, summary, call>>

\* lines 175-176: merging on "ticker" raises KeyError when funds_latest has
\* no such column
MergeLatest ==
    /\ pc = "snapshots"
    /\ IF funds_latest.ticker_col
       THEN /\ metrics' = merge_left(stocks, funds_latest, funds_latest.columns,
                                     Same(funds_latest.columns))
            /\ pc' = "merged"
            /\ err' = err
       ELSE /\ metrics' = stocks
            /\ pc' = "error"
            /\ err' = "KeyError"
    /\ UNCHANGED <<ref_date, db_stocks, db_fund, db_prices, membership,
                   stocks, funds, prices, funds_latest, funds_1y, funds_5y,
                   out, summary, call>>

\* lines 187-188
PerfCols ==
    /\ pc = "merged"
    /\ LET r == perf_loop(metrics, 1)
       IN  /\ metrics' = r.table
           /\ pc' = IF r.raised THEN "error" ELSE "perf"
           /\ err' = IF r.raised THEN "ZeroDivisionError" ELSE err
    /\ UNCHANGED <<ref_date, db_stocks, db_fund, db_prices, membership,
                   stocks, funds, prices, funds_latest, funds_1y, funds_5y,
                   out, summary, call>>

\* lines 192-237
FundMetrics ==
    /\ pc = "perf"
    /\ LET r == fund_metrics(metrics)
       IN  /\ metrics' = r.table
           /\ pc' = IF r.raised THEN "error" ELSE "computed"
           /\ err' = IF r.raised THEN "KeyError" ELSE err
    /\ UNCHANGED <<ref_date, db_stocks, db_fund, db_prices, membership,
                   stocks, funds, prices, funds_latest, funds_1y, funds_5y,
                   out, summary, call>>

\* lines 240-272
Display ==
    /\ pc = "computed"
    /\ out' = display(metrics)
    /\ summary' = quick_summary(display(metrics))
    /\ pc' = "done"
    /\ UNCHANGED <<ref_date, db_stocks, db_fund, db_prices, membership, err,
                   stocks, funds, prices, funds_latest, funds_1y, funds_5y,
                   metrics, call>>

\* line 141: a new reference date runs the script again from the top
Rerun(d) ==
    /\ pc \in {"done", "error"}
    /\ ref_date' = d
    /\ pc' = "start"
    /\ err' = "none"
    /\ stocks' = <<>>
    /\ funds' = {}
    /\ prices' = <<>>
    /\ funds_latest' = EmptyFrame
    /\ funds_1y' = EmptyFrame
    /\ funds_5y' = EmptyFrame
    /\ metrics' = <<>>
    /\ out' = <<>>
    /\ summary' = NoSummary
    /\ UNCHANGED <<db_stocks, db_fund, db_prices, membership, call>>

Next ==
    \/ Load
    \/ Snapshots
    \/ MergeLatest
    \/ PerfCols
    \/ FundMetrics
    \/ Display
    \/ \E d \in RefDates : Rerun(d)

Spec == Init /\ [][Next]_vars

SpecUniverse == InitUniverse /\ [][Next]_vars

-----------------------------------------------------------------------------
(* The two price helpers called on their own, on rows in any order *)

LookupKeys == (Tickers \X {1634, 2000}) \cup {<<"AAA", 2002>>}

Targets == {1633, 1634, 2001}

\* the sequences of distinct elements of S of length at most n
RECURSIVE Arrangements(_, _)
Arrangements(S, n) ==
    IF n = 0 THEN {<<>>}
    ELSE {<<>>} \cup
         UNION { { <<x>> \o rest : rest \in Arrangements(S \ {x}, n - 1) } : x \in S }

\* a frame of at most MaxSeriesLen rows, one close per ticker and day
InitLookup ==
    /\ \E keys \in Arrangements(LookupKeys, MaxSeriesLen) :
       \E closes \in [1..Len(keys) -> Closes] :
           prices = [i \in 1..Len(keys) |->
                        PriceRow(keys[i][1], keys[i][2], closes[i])]
    /\ ref_date = 2001
    /\ db_stocks = <<>>
    /\ db_fund = {}
    /\ db_prices = {}
    /\ membership = {}
    /\ pc = "start"
    /\ err = "none"
    /\ stocks = <<>>
    /\ funds = {}
    /\ funds_latest = EmptyFrame
    /\ funds_1y = EmptyFrame
    /\ funds_5y = EmptyFrame
    /\ metrics = <<>>
    /\ out = <<>>
    /\ summary = NoSummary
    /\ call = NoCall

CallGetPrice(t, target) ==
    /\ pc = "start"
    /\ call' = [fn |-> "get_price_on_or_before", ticker |-> t, target_date |-> target,
                result |-> get_price_on_or_before(prices, t, target)]
    /\ pc' = "returned"
    /\ UNCHANGED <<ref_date, db_stocks, db_fund, db_prices, membership, err, stocks,
                   funds, prices, funds_latest, funds_1y, funds_5y, metrics, out,
                   summary>>

CallPctChange(t, days) ==
    /\ pc = "start"
    /\ call' = [fn |-> "pct_change_from", ticker |-> t, base_date |-> ref_date,
                lookback_days |-> days,
                result |-> pct_change_from(prices, t, ref_date, days)]
    /\ pc' = "returned"
    /\ UNCHANGED <<ref_date, db_stocks, db_fund, db_prices, membership, err, stocks,
                   funds, prices, funds_latest, funds_1y, funds_5y, metrics, out,
                   summary>>

NextLookup ==
    \/ \E t \in Tickers : \E target \in Targets : CallGetPrice(t, target)
    \/ \E t \in Tickers : \E c \in DOMAIN perf_cols : CallPctChange(t, perf_cols[c])

SpecLookup == InitLookup /\ [][NextLookup]_vars

-----------------------------------------------------------------------------
(* What the claims speak of, said without the code's own steps *)

Rows(df) == {df[i] : i \in 1..Len(df)}

\* the observations of ticker t at or before day T
Observed(df, t, T) == {r \in Rows(df) : r.ticker = t /\ r.dt <= T}

\* the latest of a non-empty set of observations
LatestOf(S) == CHOOSE r \in S : \A q \in S : q.dt <= r.dt

\* the close of t at or before T, NaN when there is none
PriceAt(df, t, T) ==
    IF Observed(df, t, T) = {} THEN NaN ELSE Num(LatestOf(Observed(df, t, T)).close)

RowOrders(n) == {p \in [1..n -> 1..n] : \A i, j \in 1..n : p[i] = p[j] => i = j}

Permuted(df, p) == [i \in 1..Len(df) |-> df[p[i]]]

\* C1: get_price_on_or_before returns the close and date of the ticker's
\* observation with the greatest dt <= the target date, returns (NaN, None)
\* exactly when the ticker has no observation with dt <= the target date, and
\* returns the same under every permutation of the rows.
C1_LatestAtOrBefore ==
    call.fn = "get_price_on_or_before" =>
        LET S == Observed(prices, call.ticker, call.target_date)
        IN  /\ (S = {}) <=> (call.result = <<NaN, None>>)
            /\ S # {} => call.result = <<Num(LatestOf(S).close), Date(LatestOf(S).dt)>>
            /\ \A p \in RowOrders(Len(prices)) :
                   get_price_on_or_before(Permuted(prices, p), call.ticker,
                                          call.target_date) = call.result

\* the rows of the ticker came out of date order, one of them is after the
\* target date, and an earlier one was found
C1_Witness ==
    /\ call.fn = "get_price_on_or_before"
    /\ call.result[1] # NaN
    /\ \E i, j \in 1..Len(prices) :
           /\ i < j
           /\ prices[i].ticker = call.ticker
           /\ prices[j].ticker = call.ticker
           /\ prices[i].dt > prices[j].dt
           /\ prices[i].dt > call.target_date
           /\ prices[j].dt <= call.target_date
    /\ \E r \in Rows(prices) : r.ticker # call.ticker

\* C3 as the spec states it: the price return is the raw fraction
\* price_at(reference_date) / price_at(reference_date - W) - 1 (closes 50 and
\* 60 give 0.20), and is undefined when either lookup finds nothing.
C3_ReturnIsRawFraction ==
    call.fn = "pct_change_from" =>
        LET b == PriceAt(prices, call.ticker, call.base_date)
            g == PriceAt(prices, call.ticker, call.base_date - call.lookback_days)
        IN  /\ (b = NaN \/ g = NaN) => call.result = NaN
            /\ (b # NaN /\ g # NaN /\ g.n # 0) =>
                   /\ IsNum(call.result)
                   /\ call.result.n * g.n = (b.n - g.n) * call.result.d

\* C3 as amended: the price return is the percentage
\* (price_at(reference_date) / price_at(reference_date - W) - 1) * 100 (closes
\* 50 and 60 give 20), and is undefined (not zero) when either lookup finds
\* nothing.
C3_ReturnIsPercentage ==
    call.fn = "pct_change_from" =>
        LET b == PriceAt(prices, call.ticker, call.base_date)
            g == PriceAt(prices, call.ticker, call.base_date - call.lookback_days)
        IN  /\ (b = NaN \/ g = NaN) => call.result = NaN
            /\ (b # NaN /\ g # NaN /\ g.n # 0) =>
                   /\ IsNum(call.result)
                   /\ call.result.n * g.n = 100 * (b.n - g.n) * call.result.d

\* a close of 50, a close of 60 a year and a day later, looked back 365 days
\* from the day after: the return is 20
C3_Witness ==
    /\ call.fn = "pct_change_from"
    /\ call.lookback_days = 365
    /\ PriceAt(prices, call.ticker, call.base_date) = Num(60)
    /\ PriceAt(prices, call.ticker, call.base_date - 365) = Num(50)
    /\ call.result = Num(20)

\* the records of ticker t reported at or before day D
Filings(pool, t, D) == {r \in pool : r.ticker = t /\ r.reported_date <= D}

LatestDate(S) == Max({r.reported_date : r \in S})

\* field f of the latest filing of t at or before D, NaN when it has none
FieldAt(pool, t, D, f) ==
    LET S == Filings(pool, t, D)
        hit == {r \in S : r.reported_date = LatestDate(S) /\ r.field = f}
    IN  IF S = {} \/ hit = {} THEN NaN ELSE Num((CHOOSE r \in hit : TRUE).value)

\* a frame is the snapshot of the pool as of day D
IsSnapshot(frame, pool, D) ==
    \A t \in Tickers :
        LET S == Filings(pool, t, D)
        IN  /\ S = {} => t \notin frame.index
            /\ S # {} =>
                /\ t \in frame.index
                /\ \A f \in frame.columns : frame.cell[t][f] = FieldAt(pool, t, D, f)
                /\ \A r \in S : r.reported_date = LatestDate(S) => r.field \in frame.columns

GrowthOf(cur, prior) ==
    IF cur = NaN \/ prior = NaN \/ prior.n = 0 THEN NaN
    ELSE Frac(100 * (cur.n * prior.d - prior.n * cur.d), prior.n * cur.d)

Tick(row) == row["ticker"]

NoHistory(t, D) == Filings(db_fund, t, D) = {}

\* C4: growth is undefined exactly when a value is missing or the prior one is
\* zero, and revenue growth (1y) of a ticker with no record at or before
\* reference_date - 365 is undefined.
C4_GrowthUndefinedWithoutPrior ==
    pc \in {"done", "error"} =>
        \A i \in 1..Len(stocks) :
            /\ Len(metrics) = Len(stocks)
            /\ NoHistory(Tick(stocks[i]), ref_date - 365) =>
                   get(metrics[i], "Revenue growth (1y) %") = NaN
            /\ pc = "done" =>
                   LET cur == get(metrics[i], "revenue")
                       prior == get(metrics[i], "revenue_1y")
                   IN  (metrics[i]["Revenue growth (1y) %"] = NaN)
                           <=> (isna(cur) \/ isna(prior) \/ IsZero(prior))

EarningsBasis(t, D) ==
    LET cur_ni == FieldAt(db_fund, t, ref_date, "net_income")
        old_ni == FieldAt(db_fund, t, D, "net_income")
    IN  IF cur_ni # NaN /\ old_ni # NaN
        THEN GrowthOf(cur_ni, old_ni)
        ELSE GrowthOf(FieldAt(db_fund, t, ref_date, "eps_basic"),
                      FieldAt(db_fund, t, D, "eps_basic"))

C6_ZeroDenominatorIsUndefined ==
    /\ err # "ZeroDivisionError"
    /\ pc = "done" =>
        \A i \in 1..Len(metrics) :
            LET r == metrics[i]
            IN  /\ IsZero(get(r, "revenue")) => r["Net Margin"] = NaN
                /\ IsZero(get(r, "revenue_1y")) => r["Revenue growth (1y) %"] = NaN
                /\ IsZero(get(r, "revenue_5y")) => r["Revenue growth (5y) %"] = NaN
                /\ IsZero(get(r, "long_term_debt")) => r["Cash_to_Debt"] = NaN
                /\ IsZero(get(r, "eps_basic")) => r["FPE (approx)"] = NaN
                /\ \A c \in DOMAIN perf_cols :
                       IsZero(PriceAt(prices, Tick(r), ref_date - perf_cols[c]))
                           => r[PerfName(c)] = NaN

\* C7: every ticker of the registry has exactly one row of the output table,
\* with its identifying columns, whatever data exist for it.
C7_EveryTickerAppearsOnce ==
    pc \in {"done", "error"} =>
        \A i \in 1..Len(db_stocks) :
            /\ Cardinality({j \in 1..Len(out) :
                               Tick(out[j]) = Tick(db_stocks[i])}) = 1
            /\ \A j \in 1..Len(out) :
                   Tick(out[j]) = Tick(db_stocks[i]) =>
                       \A c \in IdCols : out[j][c] = db_stocks[i][c]

\* C8: with an empty source, or a snapshot that is the empty table, the run
\* still completes: it never ends in an error.
C8_EmptyDataCompletes ==
    (\/ stocks = <<>>
     \/ funds = {}
     \/ prices = <<>>
     \/ funds_latest = EmptyFrame
     \/ funds_1y = EmptyFrame
     \/ funds_5y = EmptyFrame) => ~(pc = "error" /\ err = "KeyError")

RECURSIVE SumOver(_, _, _)
SumOver(table, c, I) ==
    IF I = {} THEN Num(0)
    ELSE LET i == CHOOSE x \in I : TRUE
         IN  Add(table[i][c], SumOver(table, c, I \ {i}))

\* the mean of column c over the rows that have a value
MeanOfPresent(table, c) ==
    LET I == {i \in 1..Len(table) : table[i][c] # NaN}
    IN  IF I = {} THEN NaN
        ELSE Frac(SumOver(table, c, I).n, SumOver(table, c, I).d * Cardinality(I))

\* C9: the average of an aggregated column is the mean over the tickers that
\* have a value in it (the others count neither in the sum nor in the
\* divisor), and is undefined, shown as n/a, when no ticker has one or the
\* table has no row.
C9_MeanOverPresentValues ==
    pc = "done" =>
        /\ summary.mean_1y = MeanOfPresent(out, "1Y %")
        /\ summary.avg_net_margin = MeanOfPresent(out, "Net Margin")
        /\ (summary.shown_1y = [k |-> "n/a"])
               <=> (\A i \in 1..Len(out) : out[i]["1Y %"] = NaN)
        /\ (summary.shown_net_margin = [k |-> "n/a"])
               <=> (\A i \in 1..Len(out) : out[i]["Net Margin"] = NaN)

\* two tickers, one of them without a one-year return: the average is the
\* other one's return
C9_Witness ==
    /\ pc = "done"
    /\ Len(out) = 2
    /\ \E i, j \in 1..2 :
           /\ out[i]["1Y %"] = NaN
           /\ IsNum(out[j]["1Y %"])
           /\ out[j]["1Y %"].n # 0
           /\ summary.mean_1y = out[j]["1Y %"]
    /\ IsNum(summary.avg_net_margin)

Member(t, D) ==
    \E iv \in membership : iv.ticker = t /\ iv.start <= D /\ D <= iv.end

====
